---- MODULE Spec2Model ----
(***************************************************************************)
(* Middleware chain of the design-pattern demo: AirportSecurity,           *)
(* WebServer and DataPipeline.  Each class keeps an ordered list of steps  *)
(* and an async method that drives them through a continuation closure     *)
(* (proceedToNext / next) over a cursor local to the call.                 *)
(*                                                                         *)
(* The model follows JavaScript's execution: one call stack, a FIFO        *)
(* microtask queue for the continuations of `await`, and timers that fire  *)
(* when both are empty.  Every call of an async function is a frame; an    *)
(* async function that reaches the end of its body settles its promise in  *)
(* the same step.                                                          *)
(*                                                                         *)
(* The three classes have the same control flow.  They differ in what the  *)
(* end-of-list branch prints and in what the run method returns, so the    *)
(* state is kept once and ClearedLines and Outcome read it per class.      *)
(*                                                                         *)
(* Specifications:                                                         *)
(*   Spec        steps of every policy, registered before the runs         *)
(*   SpecLate    Spec with registration while a run waits for a timer      *)
(*   SpecFault   steps that raise an error for some contexts only          *)
(*   SpecAirport the airport demo: its four checkpoints, its passengers    *)
(*   SpecLive    awaited runs one after the other, under weak fairness     *)
(*   SpecLogger  the Logger singleton                                      *)
(*   SpecLoggerFull  the Logger filled past maxLogs                        *)
(*   SpecCart    the ShoppingCart module                                   *)
(*   SpecChannel YouTubeChannel and Subscriber (observer)                  *)
(*   SpecLoop    the event-loop demo: start() and its callbacks            *)
(***************************************************************************)
EXTENDS Integers, Sequences, FiniteSets

\* ------------------------------------------------------------------ bounds
MaxSteps == 3
MaxRuns == 2

Runs == 1..MaxRuns

\* The three classes that repeat the executor.
Kinds == {"airport", "web", "pipeline"}

\* What a step does with (context, continuation).
\*   pass   : mutate, await next()                      (customsCheck, ...)
\*   delay  : await a timer, mutate, await next()       (idVerification)
\*   halt   : return without calling next()             (ticketCheck, no ticket)
\*   throw  : raise an error before calling next()
\*   forget : mutate, next() without await, then await a timer of its own
\*   twice  : mutate, await next(), await next()
Policies == {"pass", "delay", "halt", "throw", "forget", "twice"}

\* The four checkpoints of the airport demo.
\*   ticketCheck    : no ticket: print the denial and return
\*   idVerification : await a timer, set idVerified, await next()
\*   securityScan   : await a timer, set securityCleared or
\*                    additionalScreening at random, await next()
\*   customsCheck   : clear hasRestrictedItems, set customsCleared,
\*                    await next()
AirportCheckpoints == <<"ticketCheck", "idVerification", "securityScan", "customsCheck">>

Program(p) ==
  CASE p = "pass"   -> <<"mut", "callAwait">>
    [] p = "delay"  -> <<"timer", "mut", "callAwait">>
    [] p = "halt"   -> <<>>
    [] p = "throw"  -> <<"throw">>
    [] p = "forget" -> <<"mut", "callNoAwait", "timer">>
    [] p = "twice"  -> <<"mut", "callAwait", "callAwait">>
    [] p = "ticketCheck"    -> <<>>
    [] p = "idVerification" -> <<"timer", "mut", "callAwait">>
    [] p = "securityScan"   -> <<"timer", "scan", "callAwait">>
    [] p = "customsCheck"   -> <<"mut", "callAwait">>

\* The policies that test the context first, `if (passenger.hasTicket)`:
\* a context that has the field is let through (mutate, await next()),
\* the others are turned away as Program says.
Gated == {"halt", "throw", "ticketCheck"}

\* The body of a step that goes on without looking at the ticket.
StepBodyUngated(p, pax) ==
  IF p \in Gated THEN <<"mut", "callAwait">> ELSE Program(p)

\* The body of a step of policy p called with a context of fields pax.
StepBody(p, pax) ==
  IF p \in Gated /\ "hasTicket" \in pax THEN <<"mut", "callAwait">> ELSE Program(p)

\* The fields of the context after the assignments of a step of policy p.
WrittenKeepRestricted(p, pax) ==
  CASE p = "ticketCheck"    -> pax \cup {"ticketVerified"}
    [] p = "idVerification" -> pax \cup {"idVerified"}
    [] p = "customsCheck"   -> pax \cup {"customsCleared"}
    [] OTHER -> pax

Written(p, pax) ==
  CASE p = "ticketCheck"    -> pax \cup {"ticketVerified"}
    [] p = "idVerification" -> pax \cup {"idVerified"}
    [] p = "customsCheck"   -> (pax \ {"hasRestrictedItems"}) \cup {"customsCleared"}
    [] OTHER -> pax

VARIABLES
  checkpoints,   \* this.checkpoints / this.middleware / this.processors
  currentIndex,  \* per run: the cursor (currentIndex / index)
  frames,        \* per run: the async calls made so far
  stack,         \* call stack, top first: <<run, frame>>
  microQ,        \* microtask queue: <<run, frame>> to resume
  ctxHeap,       \* per context object: the marks steps wrote on it
  runState,      \* per run: state of the promise returned by the run
  reason,        \* per run: the error the promise was rejected with
  invoked,       \* per run: the step invocations, in order
  exhausted,     \* per run: continuation calls that found no step left
  lenAtStart,    \* per run: length of the step list when the run began
  passengers,    \* per context object: the named fields that are true
  finalStatus,   \* the "Final status" lines processAllPassengers has printed
  instance,      \* Logger.instance, 0 while it is not set
  logs,          \* per Logger object: this.logs
  loggerRefs,    \* what each `new Logger()` evaluated to, in order
  clock,         \* the instant `new Date()` gave to the latest timed log call
  items,         \* ShoppingCart: the private `items`
  total,         \* ShoppingCart: the private `total`
  subscribers,   \* per YouTubeChannel: this.subscribers
  videos,        \* per YouTubeChannel: this.videos
  notifications, \* per Subscriber: this.notifications
  startBody,     \* event-loop demo: the statements of start()
  script,        \* the statements the running function has still to execute
  nextTickQ,     \* callbacks queued by process.nextTick
  promiseQ,      \* promise reactions queued as microtasks
  immediateQ,    \* callbacks queued by setImmediate
  draining,      \* which of the two queues Node is emptying: "ticks" or "jobs"
  console        \* what console.log has printed, in order

\* The state of the demos that are not the middleware chain.
loopVars == <<startBody, script, nextTickQ, promiseQ, immediateQ, draining, console>>

demoVars == <<instance, logs, loggerRefs, clock, items, total, subscribers, videos,
              notifications, loopVars>>

loggerVars == <<instance, logs, loggerRefs, clock>>
cartVars == <<items, total>>
channelVars == <<subscribers, videos, notifications>>

\* The state of the middleware chain.
chainVars == <<checkpoints, currentIndex, frames, stack, microQ, ctxHeap,
               runState, reason, invoked, exhausted, lenAtStart, passengers,
               finalStatus>>

vars == <<chainVars, demoVars>>

\* The context the closure of run r hands to a step: the `passenger`
\* parameter of that call, and each run is called with an object of its own.
ContextOfLatest(r) ==
  CHOOSE q \in Runs : runState[q] /= "idle" /\ \A p \in Runs : p > q => runState[p] = "idle"

ContextOf(r) == r

NoValue == [tag |-> "none", val |-> 0]
Undefined == [tag |-> "undefined", val |-> 0]
CtxValue(c) == [tag |-> "ctx", val |-> c]
Boom(i) == [tag |-> "error", val |-> i]

\* What the run method returns once `await next()` is over: handleRequest
\* and process `return request` / `return data`, processPassenger has no
\* return statement.
ReturnValueNone(k, c) == Undefined

ReturnValue(k, c) == IF k = "airport" THEN Undefined ELSE CtxValue(c)

\* `this.checkpoints.push(checkpoint)` (middleware.push, processors.push).
PushFront(list, p) == <<p>> \o list

Push(list, p) == Append(list, p)

\* The cursor a run starts with: `let currentIndex = 0` (`let index = 0`)
\* inside the run method, a variable of that call.
InitialCursorShared(r) == IF r > 1 THEN currentIndex[r - 1] ELSE 0

InitialCursor(r) == 0

\* The cursor after `this.checkpoints[currentIndex++]`.
AdvanceSkip(i) == i + 2

AdvanceStay(i) == i

Advance(i) == i + 1

\* The branch test of the continuation: is there a step left?
StepLeftShort(i, list) == i < Len(list) - 1

StepLeftInclusive(i, list) == i <= Len(list)

StepLeft(i, list) == i < Len(list)

\* The policy of the step at position i; calling a missing entry of the
\* array is a TypeError raised in the caller.
PolicyAt(i) == IF i \in DOMAIN checkpoints THEN checkpoints[i] ELSE "throw"

Frame(k, s, c, par, aw) ==
  [kind |-> k, step |-> s, ctx |-> c, parent |-> par, awaited |-> aw,
   pc |-> 1, state |-> "active", err |-> NoValue]

\* The body of each async function from its first suspension on: the run
\* method awaits the continuation, the continuation awaits the step it
\* called and ends, a step follows its policy.
OpsDrive(fr) ==
  CASE fr.kind = "run"  -> <<"callAwait">>
    [] fr.kind = "next" -> <<"awaitStep", "callAwait">>
    [] fr.kind = "step" -> StepBody(PolicyAt(fr.step), passengers[fr.ctx])

OpsNoAwait(fr) ==
  CASE fr.kind = "run"  -> <<"callAwait">>
    [] fr.kind = "next" -> <<>>
    [] fr.kind = "step" -> StepBody(PolicyAt(fr.step), passengers[fr.ctx])

Ops(fr) ==
  CASE fr.kind = "run"  -> <<"callAwait">>
    [] fr.kind = "next" -> <<"awaitStep">>
    [] fr.kind = "step" -> StepBody(PolicyAt(fr.step), passengers[fr.ctx])

\* The frame suspended at `await <promise of fr>`, 0 when the promise was
\* dropped or fr is the run method itself.
AwaiterNone(fr) == 0

Awaiter(fr) == IF fr.awaited THEN fr.parent ELSE 0

\* What an await hands to the frame it resumes when the awaited promise
\* settled with e: no function of the chain has a try/catch.
RethrowCaught(fr, e) == IF fr.kind = "next" THEN NoValue ELSE e

Rethrow(fr, e) == e

\* How many times `new Logger()` is evaluated, and how many entries the log
\* of an object is let grow to.
MaxRefs == 3
MaxLogged == 3

\* How many log calls are followed where the log is filled up.
MaxClock == 102

\* `this.maxLogs = 100`
maxLogs == 100

\* The methods error / warn / info / debug pass their own level to log.
Levels == {"error", "warn", "info", "debug"}
Messages == {"User logged in", "Low memory warning"}

\* How many items the cart is let grow to, and the products and prices of
\* the cart demo.
MaxItems == 3
Products == {"iPhone", "Case", "Charger"}
Prices == {999, 29, 39}

\* How long the subscriber list of a channel is let grow, and how many
\* videos a channel uploads.
MaxSubs == 2
MaxUploads == 2

\* The channels and subscribers the observer demo creates.
Channels == {"TechReviews", "CookingMaster"}
Subscribers == {"Alice", "Bob"}

\* The statements of start(), in source order.
StartBody ==
  <<[op |-> "log", arg |-> "start"],
    [op |-> "setImmediate", arg |-> "baz"],
    [op |-> "then", arg |-> "bar"],
    [op |-> "nextTick", arg |-> "foo"]>>

\* The queues of the event loop before anything is scheduled.
InitQueues ==
  /\ nextTickQ = <<>>
  /\ promiseQ = <<>>
  /\ immediateQ = <<>>
  /\ draining = "ticks"
  /\ console = <<>>

\* Nothing of the singleton, module and observer demos has run: no Logger
\* was constructed, the cart is empty, the channels have no subscriber and
\* no video, the subscribers no notification.
InitStores ==
  /\ instance = 0
  /\ logs = <<>>
  /\ loggerRefs = <<>>
  /\ clock = 0
  /\ items = <<>>
  /\ total = 0
  /\ subscribers = [c \in Channels |-> <<>>]
  /\ videos = [c \in Channels |-> <<>>]
  /\ notifications = [s \in Subscribers |-> <<>>]

\* No demo has run, and start() has not been called.
InitDemos ==
  /\ InitStores
  /\ InitQueues
  /\ startBody = StartBody
  /\ script = <<>>

\* An executor fresh from its constructor, and no run.
InitChain ==
  /\ checkpoints = <<>>
  /\ currentIndex = [r \in Runs |-> 0]
  /\ frames = [r \in Runs |-> <<>>]
  /\ stack = <<>>
  /\ microQ = <<>>
  /\ ctxHeap = [c \in Runs |-> {}]
  /\ runState = [r \in Runs |-> "idle"]
  /\ reason = [r \in Runs |-> NoValue]
  /\ invoked = [r \in Runs |-> <<>>]
  /\ exhausted = [r \in Runs |-> 0]
  /\ lenAtStart = [r \in Runs |-> 0]
  /\ finalStatus = <<>>

\* The contexts of the generic runs carry no ticket: a step that lets
\* only ticket holders through turns every run away.
Init ==
  /\ InitChain
  /\ passengers = [c \in Runs |-> {}]
  /\ InitDemos

\* ------------------------------------------------------------ the top frame
TopR == Head(stack)[1]
TopF == Head(stack)[2]
TopFrame == frames[TopR][TopF]
Running == stack /= <<>> /\ TopFrame.state = "active"
AtEnd(fr) == fr.pc > Len(Ops(fr))
TopOp == IF AtEnd(TopFrame) THEN "ret" ELSE Ops(TopFrame)[TopFrame.pc]

\* The part of the state the code of run r touches while it runs.
Part(r) ==
  [fs |-> frames[r], q |-> microQ, rs |-> runState[r], why |-> reason[r],
   heap |-> ctxHeap, pax |-> passengers]

\* The promise of frame f settles with state st and value e: the frame that
\* awaits it is queued as a microtask and handed the result; the promise of
\* the run method is the promise of the run.
Settle(m, r, f, st, e) ==
  LET fr == m.fs[f]
      a == Awaiter(fr)
      fs == [m.fs EXCEPT ![f].state = st, ![f].err = e]
  IN [fs  |-> IF a /= 0 THEN [fs EXCEPT ![a].state = "queued", ![a].err = e]
                        ELSE fs,
      q   |-> IF a /= 0 THEN Append(m.q, <<r, a>>) ELSE m.q,
      rs  |-> IF fr.kind = "run"
                THEN (IF st = "fulfilled" THEN "resolved" ELSE "rejected")
                ELSE m.rs,
      why |-> IF fr.kind = "run" THEN e ELSE m.why,
      heap |-> m.heap,
      pax |-> m.pax]

\* A step that is running at an assignment to the context it was given
\* (passenger.ticketVerified = true) executes it and goes on.
Mutate(m, r, f) ==
  LET fr == m.fs[f]
  IN IF fr.state = "active" /\ ~AtEnd(fr) /\ Ops(fr)[fr.pc] = "mut"
       THEN [m EXCEPT !.fs[f].pc = @ + 1,
                      !.heap[fr.ctx] = @ \cup {<<r, fr.step>>},
                      !.pax[fr.ctx] = Written(PolicyAt(fr.step), @)]
       ELSE m

\* An async function that has nothing left to execute returns: its promise
\* is fulfilled.
Finish(m, r, f) ==
  IF m.fs[f].state = "active" /\ AtEnd(m.fs[f])
    THEN Settle(m, r, f, "fulfilled", NoValue)
    ELSE m

\* The stack once the running frame has left it: every caller that is
\* suspended at its own await hands control back in turn.
RECURSIVE Unwind(_, _)
Unwind(s, fs) ==
  IF s = <<>> THEN s
  ELSE IF fs[Head(s)[1]][Head(s)[2]].state = "active" THEN s
  ELSE Unwind(Tail(s), fs)

\* The variables a settlement touches take the values of m.
Commit(m, r, s) ==
  /\ frames' = [frames EXCEPT ![r] = m.fs]
  /\ microQ' = m.q
  /\ runState' = [runState EXCEPT ![r] = m.rs]
  /\ reason' = [reason EXCEPT ![r] = m.why]
  /\ ctxHeap' = m.heap
  /\ passengers' = m.pax
  /\ stack' = Unwind(s, frames')

\* addCheckpoint / use / addProcessor: push at the end.  The executor is
\* configured before its first run, as in every usage of the three classes.
addCheckpoint(p) ==
  /\ stack = <<>> /\ microQ = <<>>
  /\ \A r \in Runs : runState[r] = "idle"
  /\ Len(checkpoints) < MaxSteps
  /\ checkpoints' = Push(checkpoints, p)
  /\ UNCHANGED <<demoVars, finalStatus, currentIndex, frames, stack, microQ, ctxHeap, runState,
                 reason, invoked, exhausted, lenAtStart, passengers>>

\* processPassenger / handleRequest / process: `let currentIndex = 0`, the
\* closure, and the frame that is about to `await proceedToNext()`.
processPassenger(r) ==
  /\ stack = <<>>
  /\ runState[r] = "idle"
  /\ \A q \in Runs : q < r => runState[q] /= "idle"
  /\ currentIndex' = [currentIndex EXCEPT ![r] = InitialCursor(r)]
  /\ frames' = [frames EXCEPT ![r] = <<Frame("run", 0, r, 0, FALSE)>>]
  /\ stack' = <<<<r, 1>>>>
  /\ runState' = [runState EXCEPT ![r] = "pending"]
  /\ lenAtStart' = [lenAtStart EXCEPT ![r] = Len(checkpoints)]
  /\ UNCHANGED <<demoVars, finalStatus, checkpoints, microQ, ctxHeap, reason, invoked, exhausted,
                 passengers>>

\* The running frame is at a call of the continuation: `await next()` or
\* `next()` with the promise dropped.
AtCall == Running /\ TopOp \in {"callAwait", "callNoAwait"}

\* The frames of the run once the caller f has made its call: it is
\* suspended at its await, or goes on after the call when the callee hands
\* control back.
Caller(r, f) ==
  IF TopOp = "callAwait" THEN [frames[r] EXCEPT ![f].state = "await"]
                         ELSE [frames[r] EXCEPT ![f].pc = @ + 1]

\* proceedToNext, a step is left: take it, move the cursor, call it with
\* (passenger, proceedToNext) and await it.
proceedToNextStep ==
  /\ AtCall
  /\ StepLeft(currentIndex[TopR], checkpoints)
  /\ LET r == TopR
         f == TopF
         i == currentIndex[r] + 1
         g == Len(frames[r]) + 1
         h == g + 1
         nx == [Frame("next", 0, 0, f, TopOp = "callAwait") EXCEPT !.state = "await"]
         st == Frame("step", i, ContextOf(r), g, ~AtEnd(nx))
     IN /\ currentIndex' = [currentIndex EXCEPT ![r] = Advance(@)]
        /\ invoked' = [invoked EXCEPT
              ![r] = Append(@, [step |-> i, ctx |-> ContextOf(r)])]
        /\ \E m0 \in {[Part(r) EXCEPT !.fs = Append(Append(Caller(r, f), nx), st)]} :
           \E m1 \in {IF AtEnd(nx) THEN Settle(m0, r, g, "fulfilled", NoValue) ELSE m0} :
           \E m2 \in {Mutate(m1, r, h)} :
           \E m3 \in {Finish(m2, r, h)} :
             Commit(m3, r, <<<<r, h>>, <<r, g>>>> \o stack)
  /\ UNCHANGED <<demoVars, finalStatus, checkpoints, exhausted, lenAtStart>>

\* proceedToNext, the list is exhausted: the else branch (the airport prints
\* its line, next of the other two has no else) and the function ends.
proceedToNextEnd ==
  /\ AtCall
  /\ ~StepLeft(currentIndex[TopR], checkpoints)
  /\ LET r == TopR
         f == TopF
         g == Len(frames[r]) + 1
         nx == Frame("next", 0, 0, f, TopOp = "callAwait")
         m0 == [Part(r) EXCEPT !.fs = Append(Caller(r, f), nx)]
     IN Commit(Settle(m0, r, g, "fulfilled", NoValue), r, stack)
  /\ exhausted' = [exhausted EXCEPT ![TopR] = @ + 1]
  /\ UNCHANGED <<demoVars, finalStatus, checkpoints, currentIndex, invoked, lenAtStart>>

\* `await new Promise(resolve => setTimeout(resolve, ms))`
Delay ==
  /\ Running /\ TopOp = "timer"
  /\ Commit([Part(TopR) EXCEPT !.fs[TopF].state = "timer"], TopR, stack)
  /\ UNCHANGED <<demoVars, finalStatus, checkpoints, currentIndex, invoked, exhausted, lenAtStart>>

\* A step throws: its promise is rejected.  When the continuation call that
\* began the step was not awaited nobody is handed the error.
Throw ==
  /\ Running /\ TopOp = "throw"
  /\ Commit(Settle(Part(TopR), TopR, TopF, "rejected", Boom(TopFrame.step)),
            TopR, stack)
  /\ UNCHANGED <<demoVars, finalStatus, checkpoints, currentIndex, invoked, exhausted, lenAtStart>>

\* The frame goes on after the await it was suspended at.
Continue(r, f) ==
  LET m0 == [Part(r) EXCEPT !.fs[f].state = "active", !.fs[f].pc = @ + 1,
                            !.q = IF stack = <<>> /\ microQ /= <<>> /\ Head(microQ) = <<r, f>>
                                    THEN Tail(microQ) ELSE microQ]
  IN \E m1 \in {m0} : \E m2 \in {Mutate(m1, r, f)} : \E m3 \in {Finish(m2, r, f)} :
       Commit(m3, r, <<<<r, f>>>>)

\* The next microtask: the awaited promise was fulfilled.
ResumeOk ==
  /\ stack = <<>> /\ microQ /= <<>>
  /\ LET r == Head(microQ)[1]
         f == Head(microQ)[2]
     IN /\ Rethrow(frames[r][f], frames[r][f].err).tag /= "error"
        /\ Continue(r, f)
  /\ UNCHANGED <<demoVars, finalStatus, checkpoints, currentIndex, invoked, exhausted, lenAtStart>>

\* The next microtask: the awaited promise was rejected; no frame has a
\* try/catch, so the await throws and the frame's own promise is rejected
\* with the same reason.
ResumeErr ==
  /\ stack = <<>> /\ microQ /= <<>>
  /\ LET r == Head(microQ)[1]
         f == Head(microQ)[2]
         e == Rethrow(frames[r][f], frames[r][f].err)
         m0 == [Part(r) EXCEPT !.q = Tail(microQ)]
     IN /\ e.tag = "error"
        /\ Commit(Settle(m0, r, f, "rejected", e), r, <<>>)
  /\ UNCHANGED <<demoVars, finalStatus, checkpoints, currentIndex, invoked, exhausted, lenAtStart>>

\* A timer fires (a macrotask: the stack and the microtask queue are empty)
\* and the frame that awaited it goes on.
TimerFire(r, f) ==
  /\ stack = <<>> /\ microQ = <<>>
  /\ frames[r][f].state = "timer"
  /\ Continue(r, f)
  /\ UNCHANGED <<demoVars, finalStatus, checkpoints, currentIndex, invoked, exhausted, lenAtStart>>

Next ==
  \/ \E p \in Policies : addCheckpoint(p)
  \/ \E r \in Runs : processPassenger(r)
  \/ proceedToNextStep
  \/ proceedToNextEnd
  \/ Delay
  \/ Throw
  \/ ResumeOk
  \/ ResumeErr
  \/ \E r \in Runs : \E f \in DOMAIN frames[r] : TimerFire(r, f)

Spec == Init /\ [][Next]_vars

\* addCheckpoint / use / addProcessor called while a run is suspended inside
\* a step that waits for a timer: the same push, on the list the run reads.
addCheckpointLate(p) ==
  /\ stack = <<>> /\ microQ = <<>>
  /\ \E r \in Runs : \E f \in DOMAIN frames[r] :
       frames[r][f].kind = "step" /\ frames[r][f].state = "timer"
  /\ Len(checkpoints) < MaxSteps
  /\ checkpoints' = Push(checkpoints, p)
  /\ UNCHANGED <<demoVars, finalStatus, currentIndex, frames, stack, microQ, ctxHeap, runState,
                 reason, invoked, exhausted, lenAtStart, passengers>>

NextLate ==
  \/ Next
  \/ \E p \in Policies : addCheckpointLate(p)

\* The executor with registration between the steps of a run.
SpecLate == Init /\ [][NextLate]_vars

\* Each context either has the field the gated steps test or lacks it.
InitFault ==
  /\ InitChain
  /\ passengers \in [Runs -> SUBSET {"hasTicket"}]
  /\ InitDemos

\* The steps registered where failures are studied: a step that raises an
\* error for the contexts it turns away, among steps that let all through.
FaultPolicies == {"pass", "delay", "throw"}

NextFault ==
  \/ \E p \in FaultPolicies : addCheckpoint(p)
  \/ \E r \in Runs : processPassenger(r)
  \/ proceedToNextStep
  \/ proceedToNextEnd
  \/ Delay
  \/ Throw
  \/ ResumeOk
  \/ ResumeErr
  \/ \E r \in Runs : \E f \in DOMAIN frames[r] : TimerFire(r, f)

\* The executor with steps that fail for some contexts and not for others.
SpecFault == InitFault /\ [][NextFault]_vars

\* ------------------------------------------------------- the airport demo
\* The passengers of the demo have a ticket or not and carry restricted
\* items or not (John, Sarah and Mike are three of the four kinds).
InitAirport ==
  /\ InitChain
  /\ passengers \in [Runs -> SUBSET {"hasTicket", "hasRestrictedItems"}]
  /\ InitDemos

\* The next of the four `airport.addCheckpoint(...)` calls of the demo.
addCheckpointDemo ==
  /\ stack = <<>> /\ microQ = <<>>
  /\ \A r \in Runs : runState[r] = "idle"
  /\ Len(checkpoints) < Len(AirportCheckpoints)
  /\ checkpoints' = Push(checkpoints, AirportCheckpoints[Len(checkpoints) + 1])
  /\ UNCHANGED <<demoVars, finalStatus, currentIndex, frames, stack, microQ, ctxHeap, runState,
                 reason, invoked, exhausted, lenAtStart, passengers>>

\* `await airport.processPassenger(passenger)` in the loop is over: the
\* promise of the run of passenger r is fulfilled.
AwaitedDropped(r) == runState[r] /= "idle"

Awaited(r) == runState[r] = "resolved"

\* The "Final status" line of passenger r is printed.
Printed(r) == \E k \in DOMAIN finalStatus : finalStatus[k].passenger = r

\* processAllPassengers: `for (const passenger of passengers) await
\* airport.processPassenger(passenger)`: the run of a passenger is called
\* when the run of the passenger before is fulfilled.
processAllPassengers(r) ==
  /\ checkpoints = AirportCheckpoints
  /\ microQ = <<>>
  /\ \A q \in Runs : q < r => Printed(q)
  /\ processPassenger(r)

\* The loop goes on after its await and prints
\* `Final status for ${passenger.name}:` with the passenger.
printFinalStatus(r) ==
  /\ stack = <<>>
  /\ Awaited(r)
  /\ ~Printed(r)
  /\ \A q \in Runs : q < r => Printed(q)
  /\ finalStatus' = Append(finalStatus, [passenger |-> r, status |-> passengers[r]])
  /\ UNCHANGED <<demoVars, checkpoints, currentIndex, frames, stack, microQ, ctxHeap,
                 runState, reason, invoked, exhausted, lenAtStart, passengers>>

\* securityScan after its timer: `if (Math.random() > 0.1)` sets
\* securityCleared, the else branch sets additionalScreening.
securityScan(cleared) ==
  /\ Running /\ TopOp = "scan"
  /\ passengers' = [passengers EXCEPT ![TopFrame.ctx] =
        @ \cup {IF cleared THEN "securityCleared" ELSE "additionalScreening"}]
  /\ frames' = [frames EXCEPT ![TopR][TopF].pc = @ + 1]
  /\ UNCHANGED <<demoVars, finalStatus, checkpoints, currentIndex, stack, microQ, ctxHeap,
                 runState, reason, invoked, exhausted, lenAtStart>>

NextAirport ==
  \/ addCheckpointDemo
  \/ \E r \in Runs : processAllPassengers(r)
  \/ \E r \in Runs : printFinalStatus(r)
  \/ proceedToNextStep
  \/ proceedToNextEnd
  \/ Delay
  \/ \E cleared \in BOOLEAN : securityScan(cleared)
  \/ ResumeOk
  \/ \E r \in Runs : \E f \in DOMAIN frames[r] : TimerFire(r, f)

SpecAirport == InitAirport /\ [][NextAirport]_vars

\* The steps of the runs whose end is studied: each does its own work, which
\* ends, and awaits the continuation it invokes, or returns without invoking
\* it, or throws.
LivePolicies == {"pass", "delay", "halt", "throw"}

\* The list registered so far is the beginning of the airport's list.
AirportSoFar ==
  /\ Len(checkpoints) <= Len(AirportCheckpoints)
  /\ checkpoints = SubSeq(AirportCheckpoints, 1, Len(checkpoints))

\* The list registered so far holds none of the airport's checkpoints.
PlainSoFar == \A k \in DOMAIN checkpoints : checkpoints[k] \in LivePolicies

\* runExamples: every run is awaited and followed by the print of its
\* result before the next run is called.
runExamples(r) ==
  /\ microQ = <<>>
  /\ \A q \in Runs : q < r => Printed(q)
  /\ processPassenger(r)

NextLive ==
  \/ AirportSoFar /\ addCheckpointDemo
  \/ \E p \in LivePolicies : PlainSoFar /\ addCheckpoint(p)
  \/ \E r \in Runs : processAllPassengers(r)
  \/ \E r \in Runs : runExamples(r)
  \/ \E r \in Runs : printFinalStatus(r)
  \/ proceedToNextStep
  \/ proceedToNextEnd
  \/ Delay
  \/ Throw
  \/ \E cleared \in BOOLEAN : securityScan(cleared)
  \/ ResumeOk
  \/ ResumeErr
  \/ \E r \in Runs : \E f \in DOMAIN frames[r] : TimerFire(r, f)

\* Awaited runs over the airport's list and over any list of such steps.  The event loop does not stop
\* while a function is running, a microtask is queued or a timer is due.
SpecLive == InitFault /\ [][NextLive]_vars /\ WF_vars(NextLive)

\* ------------------------------------------------------ the Logger singleton
\* What `new Logger()` evaluates to: the constructor returns Logger.instance
\* when it is set, and the object under construction otherwise.
ConstructedFresh(inst, this) == this

Constructed(inst, this) == IF inst /= 0 THEN inst ELSE this

\* `new Logger()`: an object is allocated; unless the constructor returns
\* the instance, it gives the object an empty log and makes it the instance.
newLogger ==
  /\ Len(loggerRefs) < MaxRefs
  /\ LET this == Len(logs) + 1
         o == Constructed(instance, this)
     IN /\ loggerRefs' = Append(loggerRefs, o)
        /\ IF o = this
             THEN logs' = Append(logs, <<>>) /\ instance' = this
             ELSE UNCHANGED <<logs, instance>>
  /\ UNCHANGED <<clock, chainVars, cartVars, channelVars, loopVars>>

\* `this.logs.push(logEntry)`, then `this.logs.shift()` when the log has
\* grown beyond maxLogs.
LoggedPop(list, entry) ==
  LET pushed == Append(list, entry)
  IN IF Len(pushed) > maxLogs THEN SubSeq(pushed, 1, Len(pushed) - 1) ELSE pushed

Logged(list, entry) ==
  LET pushed == Append(list, entry)
  IN IF Len(pushed) > maxLogs THEN Tail(pushed) ELSE pushed

\* log(message, level) through the k-th reference: push the entry and drop
\* the oldest one when the log has grown beyond maxLogs.
log(k, message, level) ==
  /\ k \in DOMAIN loggerRefs
  /\ Len(logs[loggerRefs[k]]) < MaxLogged
  /\ logs' = [logs EXCEPT ![loggerRefs[k]] =
                 Logged(@, [message |-> message, level |-> level])]
  /\ UNCHANGED <<instance, loggerRefs, clock, chainVars, cartVars, channelVars, loopVars>>

\* clearLogs() through the k-th reference: `this.logs = []`.
clearLogs(k) ==
  /\ k \in DOMAIN loggerRefs
  /\ logs' = [logs EXCEPT ![loggerRefs[k]] = <<>>]
  /\ UNCHANGED <<instance, loggerRefs, clock, chainVars, cartVars, channelVars, loopVars>>

getLogs(k) == logs[loggerRefs[k]]

getLogCount(k) == Len(logs[loggerRefs[k]])

\* info(message) through the k-th reference with its timestamp: each call
\* is made at a later instant than the one before.
logTimed(k) ==
  /\ k \in DOMAIN loggerRefs
  /\ clock < MaxClock
  /\ clock' = clock + 1
  /\ logs' = [logs EXCEPT ![loggerRefs[k]] =
                 Logged(@, [timestamp |-> clock', message |-> "User logged in",
                            level |-> "info"])]
  /\ UNCHANGED <<instance, loggerRefs, chainVars, cartVars, channelVars, loopVars>>

NextLogger ==
  \/ newLogger
  \/ \E k \in 1..MaxRefs : \E m \in Messages : \E lv \in Levels : log(k, m, lv)
  \/ \E k \in 1..MaxRefs : clearLogs(k)

SpecLogger == Init /\ [][NextLogger]_vars

NextLoggerFull ==
  \/ newLogger
  \/ \E k \in 1..MaxRefs : logTimed(k)

\* The logger with enough log calls to fill the log.
SpecLoggerFull == Init /\ [][NextLoggerFull]_vars

\* ------------------------------------------------------- the ShoppingCart
\* `items.findIndex(item => item.product === product)`: the position of the
\* first match, counted from 1 here, and 0 where findIndex gives -1.
findIndexLast(list, product) ==
  IF \E i \in DOMAIN list : list[i].product = product
    THEN CHOOSE i \in DOMAIN list :
           /\ list[i].product = product
           /\ \A j \in DOMAIN list : j > i => list[j].product /= product
    ELSE 0

findIndex(list, product) ==
  IF \E i \in DOMAIN list : list[i].product = product
    THEN CHOOSE i \in DOMAIN list :
           /\ list[i].product = product
           /\ \A j \in 1..(i - 1) : list[j].product /= product
    ELSE 0

\* The array after `splice(index, 1)`.
Splice(list, index) == SubSeq(list, 1, index - 1) \o SubSeq(list, index + 1, Len(list))

addItem(product, price) ==
  /\ Len(items) < MaxItems
  /\ items' = Append(items, [product |-> product, price |-> price])
  /\ total' = total + price
  /\ UNCHANGED <<chainVars, loggerVars, channelVars, loopVars>>

removeItem(product) ==
  /\ LET index == findIndex(items, product)
     IN IF index > 0
          THEN /\ total' = total - items[index].price
               /\ items' = Splice(items, index)
          ELSE UNCHANGED <<items, total>>
  /\ UNCHANGED <<chainVars, loggerVars, channelVars, loopVars>>

clearCart ==
  /\ items' = <<>>
  /\ total' = 0
  /\ UNCHANGED <<chainVars, loggerVars, channelVars, loopVars>>

getTotal == total

getItemCount == Len(items)

NextCart ==
  \/ \E product \in Products : \E price \in Prices : addItem(product, price)
  \/ \E product \in Products : removeItem(product)
  \/ clearCart

SpecCart == Init /\ [][NextCart]_vars

\* ------------------------------------------------------ the YouTubeChannel
\* subscribe(subscriber): push, whether or not the subscriber is on the
\* list already.
subscribe(c, sub) ==
  /\ Len(subscribers[c]) < MaxSubs
  /\ subscribers' = [subscribers EXCEPT ![c] = Append(@, sub)]
  /\ UNCHANGED <<videos, notifications, chainVars, loggerVars, cartVars, loopVars>>

\* `this.subscribers.filter(sub => sub !== subscriber)`
RECURSIVE Without(_, _)
Without(list, sub) ==
  IF list = <<>> THEN <<>>
  ELSE IF Head(list) = sub THEN Without(Tail(list), sub)
  ELSE <<Head(list)>> \o Without(Tail(list), sub)

unsubscribe(c, sub) ==
  /\ subscribers' = [subscribers EXCEPT ![c] = Without(@, sub)]
  /\ UNCHANGED <<videos, notifications, chainVars, loggerVars, cartVars, loopVars>>

\* The notifications of every subscriber once `this.subscribers.forEach`
\* has called notify(channel, title) for the entries of list, first to
\* last: notify pushes one notification.
RECURSIVE NotifyAll(_, _, _, _)
NotifyAll(list, c, title, notes) ==
  IF list = <<>> THEN notes
  ELSE NotifyAll(Tail(list), c, title,
                 [notes EXCEPT ![Head(list)] = Append(@, [channel |-> c, video |-> title])])

\* uploadVideo(title): push the video, then notify the subscribers.
uploadVideo(c) ==
  /\ Len(videos[c]) < MaxUploads
  /\ LET title == Len(videos[c]) + 1
     IN /\ videos' = [videos EXCEPT ![c] = Append(@, title)]
        /\ notifications' = NotifyAll(subscribers[c], c, title, notifications)
  /\ UNCHANGED <<subscribers, chainVars, loggerVars, cartVars, loopVars>>

getSubscriberCount(c) == Len(subscribers[c])

getVideoCount(c) == Len(videos[c])

getNotificationCount(sub) == Len(notifications[sub])

NextChannel ==
  \/ \E c \in Channels : \E sub \in Subscribers : subscribe(c, sub)
  \/ \E c \in Channels : \E sub \in Subscribers : unsubscribe(c, sub)
  \/ \E c \in Channels : uploadVideo(c)

SpecChannel == Init /\ [][NextChannel]_vars

-----------------------------------------------------------------------------
\* The event-loop ordering demo.  start() and its callbacks are lists of
\* statements; Node runs one function to its end, then empties the nextTick
\* queue, then the promise microtask queue, again while either holds
\* something, and only then runs a setImmediate callback.

\* The orders the four statements of start() can be written in.
StartBodies ==
  {[i \in DOMAIN StartBody |-> StartBody[p[i]]] :
     p \in {q \in [DOMAIN StartBody -> DOMAIN StartBody] :
              \A a, b \in DOMAIN StartBody : q[a] = q[b] => a = b}}

\* A then-callback that hands zoo to setImmediate.
BodyImmediate(cb) ==
  IF cb = "bar"
  THEN <<[op |-> "log", arg |-> "bar"], [op |-> "setImmediate", arg |-> "zoo"]>>
  ELSE <<[op |-> "log", arg |-> cb]>>

\* The statements of a callback: baz, foo and zoo print their name; the
\* then-callback prints the value the promise resolved with, "bar", and
\* queues zoo with process.nextTick.
Body(cb) ==
  IF cb = "bar"
  THEN <<[op |-> "log", arg |-> "bar"], [op |-> "nextTick", arg |-> "zoo"]>>
  ELSE <<[op |-> "log", arg |-> cb]>>

\* start() is called with its statements in one of the possible orders.
InitLoop ==
  /\ InitChain
  /\ passengers = [c \in Runs |-> {}]
  /\ InitStores
  /\ InitQueues
  /\ startBody \in StartBodies
  /\ script = startBody

\* The running function is at a statement op.
At(op) == script /= <<>> /\ Head(script).op = op

consoleLog ==
  /\ At("log")
  /\ console' = Append(console, Head(script).arg)
  /\ script' = Tail(script)
  /\ UNCHANGED <<chainVars, loggerVars, cartVars, channelVars, startBody,
                 nextTickQ, promiseQ, immediateQ, draining>>

setImmediate ==
  /\ At("setImmediate")
  /\ immediateQ' = Append(immediateQ, Head(script).arg)
  /\ script' = Tail(script)
  /\ UNCHANGED <<chainVars, loggerVars, cartVars, channelVars, startBody,
                 nextTickQ, promiseQ, draining, console>>

\* new Promise(resolve => resolve("bar")).then(cb): the promise is already
\* resolved, so the reaction is queued at once.
then ==
  /\ At("then")
  /\ promiseQ' = Append(promiseQ, Head(script).arg)
  /\ script' = Tail(script)
  /\ UNCHANGED <<chainVars, loggerVars, cartVars, channelVars, startBody,
                 nextTickQ, immediateQ, draining, console>>

nextTick ==
  /\ At("nextTick")
  /\ nextTickQ' = Append(nextTickQ, Head(script).arg)
  /\ script' = Tail(script)
  /\ UNCHANGED <<chainVars, loggerVars, cartVars, channelVars, startBody,
                 promiseQ, immediateQ, draining, console>>

\* Nothing runs: Node takes the next nextTick callback, unless it is in the
\* middle of emptying the microtask queue.
runNextTick ==
  /\ script = <<>>
  /\ nextTickQ /= <<>>
  /\ ~(draining = "jobs" /\ promiseQ /= <<>>)
  /\ script' = Body(Head(nextTickQ))
  /\ nextTickQ' = Tail(nextTickQ)
  /\ draining' = "ticks"
  /\ UNCHANGED <<chainVars, loggerVars, cartVars, channelVars, startBody,
                 promiseQ, immediateQ, console>>

\* The nextTick queue is empty, or the microtask queue is being emptied: the
\* next promise reaction runs.
runMicrotask ==
  /\ script = <<>>
  /\ promiseQ /= <<>>
  /\ nextTickQ = <<>> \/ draining = "jobs"
  /\ script' = Body(Head(promiseQ))
  /\ promiseQ' = Tail(promiseQ)
  /\ draining' = "jobs"
  /\ UNCHANGED <<chainVars, loggerVars, cartVars, channelVars, startBody,
                 nextTickQ, immediateQ, console>>

\* Both queues are empty: the check phase runs the next setImmediate callback.
runImmediate ==
  /\ script = <<>>
  /\ nextTickQ = <<>>
  /\ promiseQ = <<>>
  /\ immediateQ /= <<>>
  /\ script' = Body(Head(immediateQ))
  /\ immediateQ' = Tail(immediateQ)
  /\ draining' = "ticks"
  /\ UNCHANGED <<chainVars, loggerVars, cartVars, channelVars, startBody,
                 nextTickQ, promiseQ, console>>

NextLoop ==
  \/ consoleLog
  \/ setImmediate
  \/ then
  \/ nextTick
  \/ runNextTick
  \/ runMicrotask
  \/ runImmediate

SpecLoop == InitLoop /\ [][NextLoop]_vars

\* What the caller of the run method of class k gets.
Outcome(k, r) ==
  CASE runState[r] = "resolved" -> ReturnValue(k, frames[r][1].ctx)
    [] runState[r] = "rejected" -> reason[r]
    [] OTHER -> NoValue

\* How often class k has printed "cleared all security - boarding allowed"
\* for run r.
ClearedLines(k, r) == IF k = "airport" THEN exhausted[r] ELSE 0

\* ---------------------------------------------------------- observations
StepFrames(r) == {f \in DOMAIN frames[r] : frames[r][f].kind = "step"}

\* The frames of run r that run step i.
FramesOf(r, i) == {f \in StepFrames(r) : frames[r][f].step = i}

Entered(r, i) == \E k \in DOMAIN invoked[r] : invoked[r][k].step = i

\* How often frame f has invoked the continuation.
Calls(r, f) ==
  Cardinality({g \in DOMAIN frames[r] :
                 frames[r][g].kind = "next" /\ frames[r][g].parent = f})

\* Nothing of run r is running, queued as a microtask or waiting for a timer:
\* no code of the run will execute again.
NoWorkLeft(r) ==
  /\ runState[r] /= "idle"
  /\ \A f \in DOMAIN frames[r] : frames[r][f].state \notin {"active", "queued", "timer"}

\* Step i of run r has written its mark, if its policy has one and the step
\* has got that far.
PastMutation(r, f) ==
  LET ops == Ops(frames[r][f])
  IN \E k \in DOMAIN ops : ops[k] = "mut" /\ frames[r][f].pc > k

\* The invocations of a run that visited the first n steps, each once, in
\* registration order, with the context of the run.
InOrder(r, n) == [k \in 1..n |-> [step |-> k, ctx |-> r]]

IsPrefix(s, t) == Len(s) <= Len(t) /\ \A k \in DOMAIN s : s[k] = t[k]

\* Step policies that invoke the continuation as the first thing they do
\* with it, without waiting for anything.
Immediate == {"pass", "forget", "twice"}

TypeOK ==
  /\ Len(checkpoints) <= MaxSteps
  /\ \A r \in Runs : currentIndex[r] \in 0..MaxSteps

\* C1: when every step of the list invokes its continuation at once, a run
\* never fails, its invocations are always a prefix of "step 1, ..., step N,
\* each with the context of the run", it has made exactly those N invocations
\* when it resolves, and it is resolved once no work of it is left.
C1_AllStepsInOrder ==
  \A r \in Runs :
    (runState[r] /= "idle" /\ \A i \in DOMAIN checkpoints : checkpoints[i] \in Immediate)
    => /\ runState[r] /= "rejected"
       /\ IsPrefix(invoked[r], InOrder(r, Len(checkpoints)))
       /\ runState[r] = "resolved" => invoked[r] = InOrder(r, Len(checkpoints))
       /\ NoWorkLeft(r) => runState[r] = "resolved"

C1_Witness ==
  \E r \in Runs :
    /\ Len(checkpoints) = MaxSteps
    /\ \A i \in DOMAIN checkpoints : checkpoints[i] \in Immediate
    /\ runState[r] = "resolved"
    /\ Len(invoked[r]) = MaxSteps

\* The steps before position i invoke the continuation at most once each.
OnceBefore(i) == \A j \in 1..(i - 1) : checkpoints[j] /= "twice"

\* The steps before position i await the continuation they invoke.
AwaitedBefore(i) == \A j \in 1..(i - 1) : checkpoints[j] /= "forget"

\* A step of run r returned without invoking the continuation and without
\* raising an error.
Halted(r) ==
  \E f \in StepFrames(r) :
    /\ PolicyAt(frames[r][f].step) = "halt"
    /\ frames[r][f].state = "fulfilled"

C5_RunsIndependent ==
  \A r \in Runs :
    /\ \A k \in DOMAIN invoked[r] : invoked[r][k] = [step |-> k, ctx |-> r]
    /\ \A m \in ctxHeap[r] : m[1] = r
    /\ \A f \in StepFrames(r) : frames[r][f].ctx = r
    /\ currentIndex[r] = Len(invoked[r])

C5_Witness ==
  /\ Len(checkpoints) = 2
  /\ runState[1] = "pending" /\ runState[2] = "pending"
  /\ currentIndex[1] = 2 /\ currentIndex[2] = 1
  /\ ctxHeap[1] = {<<1, 1>>, <<1, 2>>}
  /\ ctxHeap[2] = {<<2, 1>>}

\* C6: a run on an executor with no registered step invokes no step, leaves
\* its context without a mark, makes the single continuation call that finds
\* the list exhausted, waits for no timer and never fails; it is fulfilled
\* as soon as the continuation of its one await has run.
C6_ZeroSteps ==
  \A r \in Runs :
    (runState[r] /= "idle" /\ lenAtStart[r] = 0)
    => /\ invoked[r] = <<>>
       /\ ctxHeap[r] = {}
       /\ currentIndex[r] = 0
       /\ runState[r] /= "rejected"
       /\ Len(frames[r]) <= 2
       /\ \A f \in DOMAIN frames[r] : frames[r][f].state /= "timer"
       /\ NoWorkLeft(r) => runState[r] = "resolved"

C6_Witness ==
  \E r \in Runs :
    /\ checkpoints = <<>>
    /\ runState[r] = "resolved"
    /\ Len(frames[r]) = 2
    /\ ctxHeap[r] = {}

\* C7 as stated: for all three classes a fulfilled run has the context it
\* was called with as its value.
C7_OutcomeIsContext ==
  \A r \in Runs : \A k \in Kinds :
    runState[r] = "resolved" => Outcome(k, r) = CtxValue(r)

\* C7 as amended: a fulfilled run of WebServer.handleRequest or
\* DataPipeline.process has the context it was called with as its value,
\* the object that carries the marks of the steps of that run; a fulfilled
\* run of AirportSecurity.processPassenger has the value undefined, and the
\* marks are on the passenger the caller passed.
C7_OutcomePerClass ==
  \A r \in Runs :
    runState[r] = "resolved"
    => LET marks == {<<r, frames[r][f].step>> :
                       f \in {g \in StepFrames(r) : PastMutation(r, g)}}
       IN /\ Outcome("airport", r) = Undefined
          /\ marks \subseteq ctxHeap[r]
          /\ \A k \in {"web", "pipeline"} :
               /\ Outcome(k, r) = CtxValue(r)
               /\ marks \subseteq ctxHeap[Outcome(k, r).val]

C7_Witness ==
  \E r \in Runs :
    /\ runState[r] = "resolved"
    /\ currentIndex[r] = Len(checkpoints)
    /\ Outcome("pipeline", r) = CtxValue(r)
    /\ Outcome("airport", r) = Undefined
    /\ ctxHeap[r] = {<<r, i>> : i \in 1..MaxSteps}

Executing(r) ==
  {f \in StepFrames(r) :
     \/ frames[r][f].state = "timer"
     \/ stack /= <<>> /\ Head(stack) = <<r, f>> /\ frames[r][f].state = "active"}

\* C9 as stated: whatever the steps do, at most one step of a run is
\* executing at any moment.
C9_OneStepAtATime ==
  \A r \in Runs : Cardinality(Executing(r)) <= 1

\* C9 as amended: when every step awaits the continuation it invokes, at
\* most one step of a run is executing at any moment.
C9_OneStepWhenAwaited ==
  \A r \in Runs :
    AwaitedBefore(Len(checkpoints) + 1) => Cardinality(Executing(r)) <= 1

C9_Witness ==
  \E r \in Runs :
    /\ AwaitedBefore(Len(checkpoints) + 1)
    /\ Len(checkpoints) = 3
    /\ checkpoints[1] = "twice"
    /\ \E f \in FramesOf(r, 1) : frames[r][f].state = "await" /\ Calls(r, f) = 2
    /\ \E f \in FramesOf(r, 3) : frames[r][f].state = "timer"
    /\ Cardinality(Executing(r)) = 1

\* C10: the cursor of a run never decreases; it moves by exactly one in the
\* steps that invoke a step and in no other, it always equals the number of
\* step invocations made, and the k-th invocation is of the step at position
\* k, so no step is entered twice.
C10_StrictlyForward ==
  [][\A r \in Runs :
       /\ currentIndex'[r] >= currentIndex[r]
       /\ currentIndex'[r] - currentIndex[r] = Len(invoked'[r]) - Len(invoked[r])
       /\ currentIndex'[r] - currentIndex[r] \in {0, 1}
       /\ \A k \in DOMAIN invoked'[r] : invoked'[r][k].step = k
       /\ \A f, g \in StepFrames(r)' :
            frames'[r][f].step = frames'[r][g].step => f = g]_vars

C10_Witness ==
  \E r \in Runs :
    /\ \E f \in FramesOf(r, 1) : PolicyAt(1) = "twice" /\ Calls(r, f) = 2
    /\ currentIndex[r] = MaxSteps
    /\ Len(invoked[r]) = MaxSteps

\* The positions of the steps run r has invoked, in order of invocation.
Visited(r) == [k \in DOMAIN invoked[r] |-> invoked[r][k].step]

\* C11: running does not mutate the executor.  No step of the model in
\* which a run starts, advances or settles changes the step list; a run
\* that starts, whatever became of the runs before it, has its cursor at
\* the first step, no invocation yet and a context of its own; its first
\* invocation is of the first step; and two runs that have nothing left to
\* do have visited the same steps in the same order.
C11_RunLeavesExecutor ==
  [][/\ (frames' /= frames \/ currentIndex' /= currentIndex \/ runState' /= runState)
        => checkpoints' = checkpoints
     /\ \A r \in Runs :
          (runState[r] = "idle" /\ runState'[r] /= "idle")
          => /\ currentIndex'[r] = 0
             /\ invoked'[r] = <<>>
             /\ frames'[r][1].ctx = r
             /\ \A q \in Runs \ {r} : frames'[q] = frames[q] /\ ctxHeap'[q] = ctxHeap[q]
     /\ \A r \in Runs : invoked'[r] /= <<>> => invoked'[r][1].step = 1
     /\ \A r, q \in Runs :
          (NoWorkLeft(r)' /\ NoWorkLeft(q)') => Visited(r)' = Visited(q)']_vars

C11_Witness ==
  /\ Len(checkpoints) = 3 /\ checkpoints[3] = "throw"
  /\ runState[1] = "rejected" /\ NoWorkLeft(1)
  /\ NoWorkLeft(2)
  /\ Visited(1) = <<1, 2, 3>> /\ Visited(2) = <<1, 2, 3>>

\* C12: registration preserves insertion order.  A step of the model that
\* changes the step list makes it one longer, puts the new step last and
\* leaves the steps that were there at their positions; it settles no run
\* and raises nothing; and the k-th step a run invokes is the k-th step
\* that was added.
C12_AppendInOrder ==
  [][/\ checkpoints' /= checkpoints
        => /\ Len(checkpoints') = Len(checkpoints) + 1
           /\ SubSeq(checkpoints', 1, Len(checkpoints)) = checkpoints
           /\ runState' = runState /\ reason' = reason /\ frames' = frames
     /\ \A r \in Runs : \A k \in DOMAIN invoked'[r] :
          /\ invoked'[r][k].step = k
          /\ k \in DOMAIN checkpoints']_vars

C12_Witness ==
  \E r \in Runs :
    /\ checkpoints = <<"delay", "twice", "pass">>
    /\ runState[r] = "resolved"
    /\ Visited(r) = <<1, 2, 3>>

\* C13 as stated: the steps a run visits are fixed when the run is called.
\* A run invokes only steps that were on the list at that moment, also when
\* a step is registered while the run is suspended inside a step.
C13_OrderFixedAtStart ==
  \A r \in Runs : \A k \in DOMAIN invoked[r] : invoked[r][k].step <= lenAtStart[r]

\* The promise of run r is settled.
Settled(r) == runState[r] \in {"resolved", "rejected"}

\* C14 as stated: whatever the steps do, once the promise of a run is
\* settled, or its cursor is past the last step, no step of that run is
\* invoked.
C14_NoStepAfterTerminal ==
  [][\A r \in Runs :
       (Settled(r) \/ (runState[r] = "pending" /\ ~StepLeft(currentIndex[r], checkpoints)))
       => invoked'[r] = invoked[r]]_vars

\* C14 as amended: whatever the steps do, a step of the model taken while
\* the cursor of a run is past the last step invokes no step of that run;
\* and when every step awaits the continuation it invokes, a run whose
\* promise is settled has no work left, its cursor stays and no step of it
\* is invoked.
C14_NoStepAfterTerminalAwaited ==
  [][\A r \in Runs :
       /\ (runState[r] /= "idle" /\ ~StepLeft(currentIndex[r], checkpoints))
          => invoked'[r] = invoked[r]
       /\ (Settled(r) /\ AwaitedBefore(Len(checkpoints) + 1))
          => /\ invoked'[r] = invoked[r]
             /\ currentIndex'[r] = currentIndex[r]
             /\ NoWorkLeft(r)]_vars

C14_Witness ==
  /\ checkpoints = <<"twice", "throw", "pass">>
  /\ runState[1] = "rejected" /\ Visited(1) = <<1, 2>>
  /\ runState[2] = "pending" /\ Visited(2) = <<1, 2>>

\* The step at position i raises an error when it is called in run r.
FailsIn(r, i) ==
  /\ i \in DOMAIN checkpoints
  /\ checkpoints[i] = "throw"
  /\ "hasTicket" \notin passengers[r]

\* C15: no retries, and failures are local.  A step that fails in a run is
\* invoked exactly once in that run and no step after it is invoked; the
\* run is rejected with the error of that step; and a run for which no
\* step fails is never rejected, whatever became of the other runs on the
\* executor: its invocations are a prefix of all the steps in order, and
\* once it has no work left it is fulfilled and has visited every step.
C15_FailuresLocal ==
  \A r \in Runs :
    /\ \A i \in DOMAIN checkpoints :
         (FailsIn(r, i) /\ Entered(r, i))
         => /\ Cardinality({k \in DOMAIN invoked[r] : invoked[r][k].step = i}) = 1
            /\ Len(invoked[r]) = i
            /\ runState[r] = "rejected" => reason[r] = Boom(i)
            /\ runState[r] /= "resolved"
    /\ (runState[r] /= "idle" /\ \A i \in DOMAIN checkpoints : ~FailsIn(r, i))
       => /\ runState[r] /= "rejected"
          /\ IsPrefix(invoked[r], InOrder(r, Len(checkpoints)))
          /\ NoWorkLeft(r) => /\ runState[r] = "resolved"
                              /\ invoked[r] = InOrder(r, Len(checkpoints))

C15_Witness ==
  /\ checkpoints = <<"delay", "throw", "pass">>
  /\ FailsIn(1, 2) /\ ~FailsIn(2, 2)
  /\ runState[1] = "rejected" /\ Visited(1) = <<1, 2>>
  /\ runState[2] = "resolved" /\ Visited(2) = <<1, 2, 3>>

\* C16: every `new Logger()` evaluates to the first instance, which is
\* Logger.instance, so the log is one array: whatever was logged or cleared
\* through whichever reference, getLogCount() and getLogs() give the same
\* through every reference, and a step that empties the log seen through
\* one reference empties it for all.
C16_OneLogger ==
  [][\A j, k \in DOMAIN loggerRefs' :
       /\ loggerRefs'[k] = loggerRefs'[1]
       /\ instance' = loggerRefs'[k]
       /\ getLogCount(j)' = getLogCount(k)'
       /\ getLogs(j)' = getLogs(k)'
       /\ (j \in DOMAIN loggerRefs /\ getLogCount(j) > 0 /\ getLogCount(j)' = 0)
          => getLogCount(k)' = 0]_vars

C16_Witness ==
  /\ Len(loggerRefs) = 3
  /\ getLogCount(1) = 2 /\ getLogCount(3) = 2
  /\ getLogs(2)[1].level = "info" /\ getLogs(2)[2].level = "error"

\* The sum of the prices of the items of a list.
RECURSIVE SumPrices(_)
SumPrices(list) == IF list = <<>> THEN 0 ELSE Head(list).price + SumPrices(Tail(list))

\* C17: after every step getTotal() is the sum of the prices of the items
\* in the cart.  A step that takes items away either empties the cart and
\* sets the total to 0, or takes away exactly one item, the first item of
\* its product, and lowers the total by the price of that item; removeItem
\* of a product that is not in the cart changes nothing.
C17_TotalIsSum ==
  [][/\ getTotal' = SumPrices(items')
     /\ getItemCount' < getItemCount
        => \/ items' = <<>> /\ total' = 0
           \/ \E i \in DOMAIN items :
                /\ items' = Splice(items, i)
                /\ \A j \in 1..(i - 1) : items[j].product /= items[i].product
                /\ total' = total - items[i].price
     /\ \A product \in Products :
          (removeItem(product) /\ \A i \in DOMAIN items : items[i].product /= product)
          => items' = items /\ total' = total]_vars

C17_Witness ==
  /\ items = <<[product |-> "iPhone", price |-> 999], [product |-> "Charger", price |-> 39]>>
  /\ getTotal = 1038
  /\ getItemCount = 2

\* Subscriber sub is on the subscriber list of channel c.
Subscribed(c, sub) == \E i \in DOMAIN subscribers[c] : subscribers[c][i] = sub

\* C18 as stated: an upload of a channel gives every subscriber that is
\* subscribed to the channel at that moment exactly one notification, of
\* that channel and that video, and gives the others none.
C18_NotifiedOncePerUpload ==
  [][\A c \in Channels :
       getVideoCount(c)' = getVideoCount(c) + 1
       => \A sub \in Subscribers :
            getNotificationCount(sub)' =
              getNotificationCount(sub) + (IF Subscribed(c, sub) THEN 1 ELSE 0)]_vars

\* The fields the four checkpoints set.
StatusFields ==
  {"ticketVerified", "idVerified", "securityCleared", "additionalScreening",
   "customsCleared"}

\* C19: a passenger without a ticket.  ticketCheck is the only checkpoint
\* invoked for the passenger, no checkpoint writes to the passenger, so
\* none of the status fields is ever set, and the branch that prints
\* "cleared all security - boarding allowed" is never executed for the
\* passenger.
C19_DeniedPassenger ==
  \A r \in Runs :
    "hasTicket" \notin passengers[r]
    => /\ IsPrefix(Visited(r), <<1>>)
       /\ passengers[r] \cap StatusFields = {}
       /\ ctxHeap[r] = {}
       /\ ClearedLines("airport", r) = 0
       /\ currentIndex[r] <= 1

C19_Witness ==
  \E r \in Runs :
    /\ "hasTicket" \notin passengers[r]
    /\ checkpoints = AirportCheckpoints
    /\ runState[r] = "resolved"
    /\ Visited(r) = <<1>>

\* C20: a passenger with a ticket.  The four checkpoints are invoked in
\* order, each once, whichever branch securityScan takes; securityCleared
\* and additionalScreening are never both set; and when the run is
\* fulfilled the boarding-allowed branch has been executed once,
\* ticketVerified, idVerified and customsCleared are set, hasRestrictedItems
\* is not, and one of securityCleared and additionalScreening is.  The run
\* is never rejected and is fulfilled once it has no work left.
C20_TicketedPassenger ==
  \A r \in Runs :
    ("hasTicket" \in passengers[r] /\ runState[r] /= "idle")
    => /\ IsPrefix(Visited(r), <<1, 2, 3, 4>>)
       /\ ~({"securityCleared", "additionalScreening"} \subseteq passengers[r])
       /\ runState[r] /= "rejected"
       /\ NoWorkLeft(r) => runState[r] = "resolved"
       /\ runState[r] = "resolved"
          => /\ Visited(r) = <<1, 2, 3, 4>>
             /\ ClearedLines("airport", r) = 1
             /\ {"ticketVerified", "idVerified", "customsCleared"} \subseteq passengers[r]
             /\ "hasRestrictedItems" \notin passengers[r]
             /\ passengers[r] \cap {"securityCleared", "additionalScreening"} /= {}

C20_Witness ==
  \E r \in Runs :
    /\ runState[r] = "resolved"
    /\ passengers[r] = {"hasTicket", "ticketVerified", "idVerified",
                        "additionalScreening", "customsCleared"}
    /\ Visited(r) = <<1, 2, 3, 4>>

\* C21: processAllPassengers handles the passengers one at a time, in list
\* order.  When the run of a passenger has been called, the run of every
\* passenger before is fulfilled and its "Final status" line is printed;
\* at most one run is pending; and the lines are printed in list order.
C21_OneAtATime ==
  /\ \A r \in Runs :
       runState[r] /= "idle"
       => \A q \in Runs : q < r => runState[q] = "resolved" /\ Printed(q)
  /\ \A r, q \in Runs :
       (runState[r] = "pending" /\ runState[q] = "pending") => r = q
  /\ \A k \in DOMAIN finalStatus :
       finalStatus[k].passenger = k /\ runState[k] = "resolved"

C21_Witness ==
  /\ Len(finalStatus) = 1
  /\ runState[2] = "pending"
  /\ Visited(2) = <<1, 2>>
  /\ "ticketVerified" \notin finalStatus[1].status

\* C22: the Logger keeps only the recent entries.  After every log call the
\* log holds at most maxLogs entries; it holds all the entries logged while
\* there were at most maxLogs of them, and the latest maxLogs of them from
\* then on, the oldest first.
C22_KeepsRecent ==
  \A o \in DOMAIN logs :
    /\ Len(logs[o]) <= maxLogs
    /\ Len(logs[o]) = (IF clock <= maxLogs THEN clock ELSE maxLogs)
    /\ \A i \in DOMAIN logs[o] : logs[o][i].timestamp = clock - Len(logs[o]) + i

C22_Witness ==
  /\ Len(loggerRefs) = 2
  /\ clock = maxLogs + 2
  /\ getLogCount(2) = maxLogs
  /\ getLogs(1)[1].timestamp = 3
  /\ getLogs(1)[maxLogs].timestamp = maxLogs + 2


\* C23: however the four statements of start() are ordered, and so for
\* start() as written, the lines printed are start, foo, bar, zoo, baz in this
\* order: what is printed so far is always a beginning of that list, it is the
\* whole list once nothing is left to run, and when the setImmediate callback
\* baz has printed, the nextTick and the microtask queue are empty and zoo,
\* queued from the microtask, has printed already.
C23_CallbackOrder ==
  /\ IsPrefix(console, <<"start", "foo", "bar", "zoo", "baz">>)
  /\ (script = <<>> /\ nextTickQ = <<>> /\ promiseQ = <<>> /\ immediateQ = <<>>)
       => console = <<"start", "foo", "bar", "zoo", "baz">>
  /\ (console /= <<>> /\ console[Len(console)] = "baz")
       => nextTickQ = <<>> /\ promiseQ = <<>> /\ console[Len(console) - 1] = "zoo"

C23_Witness ==
  /\ startBody = StartBody
  /\ script = <<>>
  /\ immediateQ = <<>>
  /\ console = <<"start", "foo", "bar", "zoo", "baz">>

\* C24: with steps that await the continuation they invoke, return without
\* invoking it or throw, a run that was started is settled in the end; and
\* once processAllPassengers has started on the list of the four airport
\* checkpoints, the final status of every passenger is printed in the end,
\* whichever passengers were denied.
C24_RunSettles ==
  /\ \A r \in Runs : (runState[r] = "pending") ~> Settled(r)
  /\ (checkpoints = AirportCheckpoints /\ runState[1] = "pending")
       ~> (\A r \in Runs : Printed(r))

C24_Witness ==
  /\ checkpoints = AirportCheckpoints
  /\ "hasTicket" \notin passengers[1]
  /\ Visited(1) = <<1>>
  /\ \A r \in Runs : Printed(r)
\* C25 as stated: in a run of the airport the end-of-list branch, which
\* prints the line "cleared all security - boarding allowed", is executed at
\* most once, whatever the steps do with the continuation, and not before
\* every registered checkpoint has been invoked.
C25_ClearedAtMostOnce ==
  \A r \in Runs :
    /\ ClearedLines("airport", r) <= 1
    /\ ClearedLines("airport", r) > 0
         => Visited(r) = [k \in DOMAIN checkpoints |-> k]
\* The promise of step frame f of run r is settled: the step has completed.
Completed(r, f) == frames[r][f].state \in {"fulfilled", "rejected"}

\* Step frame f of run r is back in its own code after a call of the
\* continuation.
Resumed(r, f) == frames[r][f].state = "active" /\ Calls(r, f) >= 1

\* C26 as stated: when every step awaits the continuation it invokes, a
\* step is back in the code after its continuation call only when every
\* invoked step after it has completed, a step has completed only when every
\* invoked step after it has, so that steps complete in reverse registration
\* order, and the run is settled only when every invoked step has completed.
C26_OnionCompletion ==
  \A r \in Runs :
    AwaitedBefore(Len(checkpoints) + 1)
    => /\ \A f, g \in StepFrames(r) :
            ((Resumed(r, f) \/ Completed(r, f)) /\ frames[r][g].step > frames[r][f].step)
            => Completed(r, g)
       /\ Settled(r) => \A g \in StepFrames(r) : Completed(r, g)
====
